---- MODULE Spec2Model ----
(***************************************************************************)
(* Model of QOpenScienceFramework/connection.py: the process-wide OAuth2   *)
(* session, the token checks, logout, the endpoint resolver and the        *)
(* requires_authentication wrapper that classifies the provider's          *)
(* responses; and of the LoginWindow callbacks of loginwindow.py.          *)
(***************************************************************************)
EXTENDS Integers, Sequences, FiniteSets, TLC

VARIABLES settings, session, nextId, now, window, last

vars == <<settings, session, nextId, now, window, last>>

(***************************************************************************)
(* Bounds of the model.                                                    *)
(***************************************************************************)
\* largest value of the clock (time.time())
MaxTime == 1
\* largest expires_in a redirect fragment carries
MaxExpiresIn == 1
\* number of session objects the process constructs in one run
MaxSessions == 2
\* largest number of arguments handed to api_call
MaxArgs == 2

(***************************************************************************)
(* Values of the program.                                                  *)
(***************************************************************************)
\* the `state` values OAuth2Session.new_state can generate ("" = none yet)
States == {"s1", "s2"}
\* the access tokens a redirect fragment can carry
AccessTokens == {"tokA"}

\* session.token == {} : an empty token dictionary
NoToken == [present |-> FALSE, access_token |-> "", expires_at |-> 0]

\* session = None, the module-level initial value
None == [id |-> 0, client_id |-> "", redirect_uri |-> "", scope |-> "",
         state |-> "", token |-> NoToken]

IsNone(s) == s.id = 0

\* a new session that starts with a token already stored
OAuth2Session_stale(i) ==
    [id |-> i, client_id |-> "client_id", redirect_uri |-> "redirect_uri",
     scope |-> "scope", state |-> "",
     token |-> [present |-> TRUE, access_token |-> "tokA", expires_at |-> 0]]

\* requests_oauthlib.OAuth2Session(client_id, client, scope=, redirect_uri=)
OAuth2Session(i) ==
    [id |-> i, client_id |-> "client_id", redirect_uri |-> "redirect_uri",
     scope |-> "scope", state |-> "", token |-> NoToken]

\* no argument recorded for an operation
NoArg == [t |-> "none"]

\* the result of one operation: how it ended and what it touched; arg is
\* the argument of the operations that take one, emitted and hid tell
\* whether a LoginWindow callback emitted logged_in and called hide()
Outcome(op, kind, exc, value, invoked, revoke, resp) ==
    [op |-> op, kind |-> kind, exc |-> exc, value |-> value,
     invoked |-> invoked, revoke |-> revoke, resp |-> resp,
     arg |-> NoArg, emitted |-> FALSE, hid |-> FALSE]

\* the result of an operation that takes an argument
OutcomeOf(op, kind, exc, value, arg) ==
    [op |-> op, kind |-> kind, exc |-> exc, value |-> value,
     invoked |-> FALSE, revoke |-> 0,
     resp |-> [status_code |-> 0, ctype |-> "", content |-> ""],
     arg |-> arg, emitted |-> FALSE, hid |-> FALSE]

NoValue == [t |-> "none"]
PyBool(b) == [t |-> "bool", b |-> b]
NoResp == [status_code |-> 0, ctype |-> "", content |-> ""]

\* the LoginWindow after its constructor: shown for the login, and the
\* attribute self.token not set yet
LoginWindow == [visible |-> TRUE, token |-> [t |-> "unset"]]

Init ==
    /\ settings = {}
    /\ session = None
    /\ nextId = 1
    /\ now = 0
    /\ window = LoginWindow
    /\ last = Outcome("init", "none", "", NoValue, FALSE, 0, NoResp)

\* callers fill the settings dictionary before creating a session
ConfigureSettings ==
    /\ \E k \in {"client_id", "redirect_uri"} :
          /\ k \notin settings
          /\ settings' = settings \cup {k}
          /\ last' = Outcome("configure", "return", "", NoValue, FALSE, 0, NoResp)
    /\ UNCHANGED <<session, nextId, now, window>>

\* time.time() moves on between two calls
Tick ==
    /\ now < MaxTime
    /\ now' = now + 1
    /\ last' = Outcome("tick", "none", "", NoValue, FALSE, 0, NoResp)
    /\ UNCHANGED <<settings, session, nextId, window>>

create_session ==
    /\ nextId <= MaxSessions
    /\ IF "client_id" \notin settings \/ "redirect_uri" \notin settings
       THEN /\ last' = Outcome("create_session", "raise", "KeyError", NoValue,
                               FALSE, 0, NoResp)
            /\ UNCHANGED <<session, nextId>>
       ELSE /\ session' = OAuth2Session(nextId)
            /\ nextId' = nextId + 1
            /\ last' = Outcome("create_session", "return", "", NoValue,
                               FALSE, 0, NoResp)
    /\ UNCHANGED <<settings, now, window>>

(***************************************************************************)
(* Session Manager.                                                        *)
(***************************************************************************)
\* OAuth2Session.authorized: an access token is set on the client
is_authorized(s) == s.token.access_token # ""

\* token_valid with the boundary instant counted as still valid
token_valid_ge(s, t) ==
    IF IsNone(s) \/ ~s.token.present
    THEN FALSE
    ELSE s.token.expires_at >= t

\* `not hasattr(session, "token") or not session.token` gives False,
\* otherwise the stored expires_at is compared with the clock
token_valid(s, t) ==
    IF IsNone(s) \/ ~s.token.present
    THEN FALSE
    ELSE s.token.expires_at > t

\* the redirect URLs handed to parse_token_from_url: fragment tells whether
\* the URL has a fragment at all, token whether the fragment has an
\* access_token parameter (its value may be empty), state is the state the
\* provider echoes
NoFragmentUrl == [fragment |-> FALSE, token |-> FALSE, state |-> "",
                  access_token |-> "", expires_in |-> 0]
NoTokenUrl == [fragment |-> TRUE, token |-> FALSE, state |-> "",
               access_token |-> "", expires_in |-> 0]
Urls ==
    {NoFragmentUrl, NoTokenUrl} \cup
    [fragment : {TRUE}, token : {TRUE}, state : States,
     access_token : AccessTokens \cup {""}, expires_in : 0..MaxExpiresIn]

TokenValue(tok) == [t |-> "token", access_token |-> tok.access_token,
                    expires_at |-> tok.expires_at]

\* token_from_fragment that stores the token before it compares the state
token_from_fragment_store_first(s, url, t) ==
    [exc |-> IF s.state # "" /\ url.state # s.state THEN "ValueError"
             ELSE IF ~url.token THEN "MissingTokenError" ELSE "",
     session |-> [s EXCEPT !.token =
                     [present |-> TRUE,
                      access_token |-> url.access_token,
                      expires_at |-> t + url.expires_in]]]

\* token_from_fragment that replaces the access token and keeps the expiry
\* of the token stored before
token_from_fragment_partial(s, url, t) ==
    IF s.state # "" /\ url.state # s.state
    THEN [exc |-> "ValueError", session |-> s]
    ELSE IF ~url.token
    THEN [exc |-> "MissingTokenError", session |-> s]
    ELSE [exc |-> "",
          session |-> [s EXCEPT !.token =
                          [present |-> TRUE,
                           access_token |-> url.access_token,
                           expires_at |-> IF s.token.present
                                          THEN s.token.expires_at
                                          ELSE t + url.expires_in]]]

\* OAuth2Session.token_from_fragment: the state is compared first, then the
\* presence of the access_token parameter is validated (an empty value
\* passes), and only then the token is stored
token_from_fragment(s, url, t) ==
    IF s.state # "" /\ url.state # s.state
    THEN [exc |-> "ValueError", session |-> s]
    ELSE IF ~url.token
    THEN [exc |-> "MissingTokenError", session |-> s]
    ELSE [exc |-> "",
          session |-> [s EXCEPT !.token =
                          [present |-> TRUE,
                           access_token |-> url.access_token,
                           expires_at |-> t + url.expires_in]]]

get_authorization_url ==
    /\ IF IsNone(session)
       THEN /\ last' = Outcome("get_authorization_url", "raise",
                               "AttributeError", NoValue, FALSE, 0, NoResp)
            /\ UNCHANGED session
       ELSE \E st \in States :
            /\ session' = [session EXCEPT !.state = st]
            /\ last' = Outcome("get_authorization_url", "return", "",
                               [t |-> "str", s |-> st], FALSE, 0, NoResp)
    /\ UNCHANGED <<settings, nextId, now, window>>

\* parse_token_from_url without its return statement
parse_token_no_return(s, url, t) ==
    [exc |-> token_from_fragment(s, url, t).exc,
     session |-> token_from_fragment(s, url, t).session,
     value |-> NoValue]

\* lines 116-123 on an existing session: the token is returned when the
\* session is authorized afterwards, otherwise the call logs and returns None
parse_token(s, url, t) ==
    LET r == token_from_fragment(s, url, t) IN
    [exc |-> r.exc, session |-> r.session,
     value |-> IF r.exc = "" /\ is_authorized(r.session)
               THEN TokenValue(r.session.token) ELSE NoValue]

parse_token_from_url ==
    /\ \E url \in Urls :
       IF IsNone(session)
       THEN /\ last' = OutcomeOf("parse_token_from_url", "raise",
                                 "AttributeError", NoValue, url)
            /\ UNCHANGED session
       ELSE LET r == parse_token(session, url, now) IN
            /\ session' = r.session
            /\ last' = OutcomeOf("parse_token_from_url",
                                 IF r.exc # "" THEN "raise" ELSE "return",
                                 r.exc, r.value, url)
    /\ UNCHANGED <<settings, nextId, now, window>>

is_authorized_call ==
    /\ last' = IF IsNone(session)
               THEN Outcome("is_authorized", "raise", "AttributeError",
                            NoValue, FALSE, 0, NoResp)
               ELSE Outcome("is_authorized", "return", "",
                            PyBool(is_authorized(session)), FALSE, 0, NoResp)
    /\ UNCHANGED <<settings, session, nextId, now, window>>

token_valid_call ==
    /\ last' = Outcome("token_valid", "return", "",
                       PyBool(token_valid(session, now)), FALSE, 0, NoResp)
    /\ UNCHANGED <<settings, session, nextId, now, window>>

\* the statuses the revocation endpoint answers with
RevokeStatuses == {204, 400}

\* logout that drops the session whatever the revocation endpoint answers
logout_always_reset(s, rs) ==
    [kind |-> "return", exc |-> "", value |-> PyBool(rs = 204),
     session |-> OAuth2Session(s.id)]

\* logout() on an existing session whose revocation request returned rs:
\* on 204 the name reset_session is looked up, which the module never
\* defines, so the assignment to the global never happens
logout(s, rs) ==
    IF rs = 204
    THEN [kind |-> "raise", exc |-> "NameError", value |-> NoValue,
          session |-> s]
    ELSE [kind |-> "return", exc |-> "", value |-> PyBool(FALSE),
          session |-> s]

logout_call ==
    /\ IF IsNone(session)
       THEN /\ last' = Outcome("logout", "raise", "AttributeError", NoValue,
                               FALSE, 0, NoResp)
            /\ UNCHANGED session
       ELSE \E rs \in RevokeStatuses :
            LET r == logout(session, rs) IN
            /\ session' = r.session
            /\ last' = Outcome("logout", r.kind, r.exc, r.value, FALSE, rs,
                               NoResp)
    /\ UNCHANGED <<settings, nextId, now, window>>

(***************************************************************************)
(* Provider responses and their JSON bodies.                               *)
(***************************************************************************)
JStr(str) == [t |-> "str", s |-> str]
JList(items) == [t |-> "list", items |-> items]
\* a JSON object as the sequence of its <<key, value>> members
JDict(pairs) == [t |-> "dict", pairs |-> pairs]

InvalidTokenMsg == "User provided an invalid OAuth2 access token"

\* the bodies a response carries (response.content)
Bodies ==
    { "<html>Bad gateway</html>",
      "false",
      "[]",
      "{\"data\":[]}",
      "{\"errors\":[{\"detail\":\"User provided an invalid OAuth2 access token\"}]}",
      "{\"errors\":[{\"detail\":\"Not found.\"}]}",
      "{\"errors\":[]}",
      "{\"errors\":[{}]}",
      "{\"errors\":\"denied\"}" }

\* response.json(): the decoded document, or ok = FALSE for JSONDecodeError
JsonDecode(raw) ==
    CASE raw = "false" -> [ok |-> TRUE, v |-> PyBool(FALSE)]
      [] raw = "[]" -> [ok |-> TRUE, v |-> JList(<<>>)]
      [] raw = "{\"data\":[]}" ->
            [ok |-> TRUE, v |-> JDict(<< <<"data", JList(<<>>)>> >>)]
      [] raw = "{\"errors\":[{\"detail\":\"User provided an invalid OAuth2 access token\"}]}" ->
            [ok |-> TRUE,
             v |-> JDict(<< <<"errors",
                     JList(<< JDict(<< <<"detail", JStr(InvalidTokenMsg)>> >>) >>)>> >>)]
      [] raw = "{\"errors\":[{\"detail\":\"Not found.\"}]}" ->
            [ok |-> TRUE,
             v |-> JDict(<< <<"errors",
                     JList(<< JDict(<< <<"detail", JStr("Not found.")>> >>) >>)>> >>)]
      [] raw = "{\"errors\":[]}" ->
            [ok |-> TRUE, v |-> JDict(<< <<"errors", JList(<<>>)>> >>)]
      [] raw = "{\"errors\":[{}]}" ->
            [ok |-> TRUE,
             v |-> JDict(<< <<"errors", JList(<< JDict(<<>>) >>)>> >>)]
      [] raw = "{\"errors\":\"denied\"}" ->
            [ok |-> TRUE, v |-> JDict(<< <<"errors", JStr("denied")>> >>)]
      [] OTHER -> [ok |-> FALSE, v |-> NoValue]

\* `key in d.keys()` for a decoded JSON object
HasKey(d, key) == \E i \in 1..Len(d.pairs) : d.pairs[i][1] = key

FirstChar(str) == CASE str = "denied" -> "d" [] OTHER -> str

\* v[key] with a string key, as Python evaluates it on a decoded JSON value
PyGetItemStr(v, key) ==
    IF v.t = "dict"
    THEN IF HasKey(v, key)
         THEN [exc |-> "",
               v |-> v.pairs[CHOOSE i \in 1..Len(v.pairs) : v.pairs[i][1] = key][2]]
         ELSE [exc |-> "KeyError", v |-> NoValue]
    ELSE [exc |-> "TypeError", v |-> NoValue]

\* v[i] with an integer index
PyGetItemInt(v, i) ==
    IF v.t = "dict"
    THEN [exc |-> "KeyError", v |-> NoValue]
    ELSE IF v.t = "list"
    THEN IF i + 1 <= Len(v.items)
         THEN [exc |-> "", v |-> v.items[i + 1]]
         ELSE [exc |-> "IndexError", v |-> NoValue]
    ELSE IF v.t = "str"
    THEN IF v.s # ""
         THEN [exc |-> "", v |-> JStr(FirstChar(v.s))]
         ELSE [exc |-> "IndexError", v |-> NoValue]
    ELSE [exc |-> "TypeError", v |-> NoValue]

\* the status codes of API responses and their reason phrases
Statuses == {200, 401}
Reason(code) ==
    CASE code = 200 -> "OK"
      [] code = 401 -> "Unauthorized"
      [] OTHER -> ""

\* the content-type headers of API responses ("" = the header is absent)
ContentTypes ==
    {"application/vnd.api+json", "application/json",
     "application/octet-stream", "text/html", "text/plain", ""}

Responses == [status_code : Statuses, ctype : ContentTypes, content : Bodies]

(***************************************************************************)
(* Authenticated Request Wrapper.                                          *)
(***************************************************************************)
Result(kind, exc, value, invoked, revoke, s) ==
    [kind |-> kind, exc |-> exc, value |-> value, invoked |-> invoked,
     revoke |-> revoke, session |-> s]

error_text(resp, message) ==
    [t |-> "error_text", status_code |-> resp.status_code,
     reason |-> Reason(resp.status_code), ctype |-> resp.ctype,
     message |-> message]

\* the report with the body kept for every content type
Unhandled_always_body(s, resp) ==
    Result("raise", "OSFInvalidResponse", error_text(resp, resp.content),
           TRUE, 0, s)

\* lines 186-201: nothing was returned or raised so far
Unhandled(s, resp) ==
    Result("raise", "OSFInvalidResponse",
           error_text(resp,
              IF resp.ctype \notin {"text/html", "application/octet-stream"}
              THEN resp.content ELSE ""),
           TRUE, 0, s)

\* lines 168-185: the error envelope of a JSON response.  The name
\* `response` is rebound to the decoded document, so the code after the
\* block reads .headers of a dict; a body that does not decode leaves the
\* Response object in place, which has no keys()
JsonError(s, resp, rs) ==
    LET d == JsonDecode(resp.content)
        errs == PyGetItemStr(d.v, "errors")
        first == PyGetItemInt(errs.v, 0)
        msg == PyGetItemStr(first.v, "detail")
        lo == logout(s, rs)
    IN  IF ~d.ok \/ d.v.t # "dict"
        THEN Result("raise", "AttributeError", NoValue, TRUE, 0, s)
        ELSE IF ~HasKey(d.v, "errors")
        THEN Result("raise", "AttributeError", NoValue, TRUE, 0, s)
        ELSE IF first.exc # ""
        THEN Result("raise", first.exc, NoValue, TRUE, 0, s)
        ELSE IF msg.exc # ""
        THEN Result("raise", msg.exc, NoValue, TRUE, 0, s)
        ELSE IF msg.v = JStr(InvalidTokenMsg)
        THEN IF lo.kind = "raise"
             THEN Result("raise", lo.exc, NoValue, TRUE, rs, lo.session)
             ELSE Result("raise", "TokenExpiredError", msg.v, TRUE, rs,
                         lo.session)
        ELSE Result("raise", "AttributeError", NoValue, TRUE, 0, s)

\* the classification with a download decoded like a JSON document
Classify_decode_stream(s, resp, rs) ==
    IF resp.ctype = ""
    THEN Result("raise", "KeyError", NoValue, TRUE, 0, s)
    ELSE IF resp.status_code = 200
            /\ resp.ctype \in {"application/vnd.api+json",
                               "application/octet-stream"}
    THEN IF JsonDecode(resp.content).ok
         THEN Result("return", "", JsonDecode(resp.content).v, TRUE, 0, s)
         ELSE Result("raise", "OSFInvalidResponse",
                     JStr("Could not decode response to JSON"), TRUE, 0, s)
    ELSE IF resp.ctype \in {"application/json", "application/vnd.api+json"}
    THEN JsonError(s, resp, rs)
    ELSE Unhandled(s, resp)

\* lines 150-201: the response of the wrapped function is classified
Classify(s, resp, rs) ==
    IF resp.ctype = ""
    THEN Result("raise", "KeyError", NoValue, TRUE, 0, s)
    ELSE IF resp.status_code = 200 /\ resp.ctype = "application/vnd.api+json"
    THEN IF JsonDecode(resp.content).ok
         THEN Result("return", "", JsonDecode(resp.content).v, TRUE, 0, s)
         ELSE Result("raise", "OSFInvalidResponse",
                     JStr("Could not decode response to JSON"), TRUE, 0, s)
    ELSE IF resp.status_code = 200 /\ resp.ctype = "application/octet-stream"
    THEN Result("return", "", [t |-> "bytes", raw |-> resp.content], TRUE, 0, s)
    ELSE IF resp.ctype \in {"application/json", "application/vnd.api+json"}
    THEN JsonError(s, resp, rs)
    ELSE Unhandled(s, resp)

\* the checks without the expiry check
Precheck_noexpiry(s, t) ==
    IF IsNone(s)
    THEN Result("raise", "AttributeError", NoValue, FALSE, 0, s)
    ELSE IF ~is_authorized(s)
    THEN Result("return", "", PyBool(FALSE), FALSE, 0, s)
    ELSE Result("pass", "", NoValue, TRUE, 0, s)

\* the checks with an expired token reported like a missing one
Precheck_expired_returns(s, t) ==
    IF IsNone(s)
    THEN Result("raise", "AttributeError", NoValue, FALSE, 0, s)
    ELSE IF ~is_authorized(s) \/ ~token_valid(s, t)
    THEN Result("return", "", PyBool(FALSE), FALSE, 0, s)
    ELSE Result("pass", "", NoValue, TRUE, 0, s)

\* the checks with an expired token dropped from the session
Precheck_expired_clears(s, t) ==
    IF IsNone(s)
    THEN Result("raise", "AttributeError", NoValue, FALSE, 0, s)
    ELSE IF ~is_authorized(s)
    THEN Result("return", "", PyBool(FALSE), FALSE, 0, s)
    ELSE IF ~token_valid(s, t)
    THEN Result("raise", "TokenExpiredError",
                JStr("The supplied token has expired"), FALSE, 0,
                [s EXCEPT !.token = NoToken])
    ELSE Result("pass", "", NoValue, TRUE, 0, s)

\* lines 141-148: the checks before the wrapped function is called;
\* "pass" lets the call through to the wrapped function
Precheck(s, t) ==
    IF IsNone(s)
    THEN Result("raise", "AttributeError", NoValue, FALSE, 0, s)
    ELSE IF ~is_authorized(s)
    THEN Result("return", "", PyBool(FALSE), FALSE, 0, s)
    ELSE IF ~token_valid(s, t)
    THEN Result("raise", "TokenExpiredError",
                JStr("The supplied token has expired"), FALSE, 0, s)
    ELSE Result("pass", "", NoValue, TRUE, 0, s)

func_wrapper(s, t, resp, rs) ==
    IF Precheck(s, t).kind # "pass"
    THEN Precheck(s, t)
    ELSE Classify(s, resp, rs)

\* the answers of the revocation endpoint that matter for a response: only
\* the invalid-token envelope makes the wrapper send the revocation request
RevokeAnswers(resp) ==
    IF resp.content =
         "{\"errors\":[{\"detail\":\"User provided an invalid OAuth2 access token\"}]}"
    THEN RevokeStatuses ELSE {204}

\* a call of one of the decorated functions (get_logged_in_user,
\* get_user_projects, get_project_repos, get_repo_files, direct_api_call);
\* resp is what session.get returns if it is reached, rs what the
\* revocation endpoint answers if logout is reached
wrapped_api_call ==
    /\ \E resp \in (IF Precheck(session, now).invoked
                    THEN Responses ELSE {NoResp}) :
       \E rs \in RevokeAnswers(resp) :
       LET r == func_wrapper(session, now, resp, rs) IN
       /\ session' = r.session
       /\ last' = Outcome("api", r.kind, r.exc, r.value, r.invoked, r.revoke,
                          resp)
    /\ UNCHANGED <<settings, nextId, now, window>>

(***************************************************************************)
(* Endpoint resolver.                                                      *)
(***************************************************************************)
api_base_url == "api_base_url"

\* the argument values of api_call
ArgValues == {"abc123", "osfstorage"}

\* a URL template as the sequence of its literal pieces and "{}" fields
api_calls ==
    [logged_in_user |-> <<"users/me/">>,
     projects |-> <<"users/me/nodes/">>,
     project_repos |-> <<"nodes/", "{}", "/files/">>,
     repo_files |-> <<"nodes/", "{}", "/files/", "{}", "/">>,
     file_info |-> <<"files/", "{}", "/">>]

Commands == DOMAIN api_calls \cup {"user_logs"}

ArgLists == UNION {[1..n -> ArgValues] : n \in 0..MaxArgs}

RECURSIVE format_from(_, _, _, _)
\* str.format with automatic field numbering: field k takes args[k], a field
\* without an argument raises IndexError, arguments left over are ignored
format_from(tpl, args, i, k) ==
    IF i > Len(tpl)
    THEN [exc |-> "", out |-> <<>>]
    ELSE IF tpl[i] = "{}"
    THEN IF k > Len(args)
         THEN [exc |-> "IndexError", out |-> <<>>]
         ELSE LET rest == format_from(tpl, args, i + 1, k + 1) IN
              [exc |-> rest.exc, out |-> <<args[k]>> \o rest.out]
    ELSE LET rest == format_from(tpl, args, i + 1, k) IN
         [exc |-> rest.exc, out |-> <<tpl[i]>> \o rest.out]

format(tpl, args) == format_from(tpl, args, 1, 1)

\* api_base_url + api_calls[command].format(*args)
api_call(command, args) ==
    IF command \notin DOMAIN api_calls
    THEN [exc |-> "KeyError", value |-> NoValue]
    ELSE IF format(api_calls[command], args).exc # ""
    THEN [exc |-> format(api_calls[command], args).exc, value |-> NoValue]
    ELSE [exc |-> "",
          value |-> [t |-> "url",
                     parts |-> <<api_base_url>> \o
                               format(api_calls[command], args).out]]

api_call_call ==
    /\ \E command \in Commands, args \in ArgLists :
       LET r == api_call(command, args) IN
       last' = OutcomeOf("api_call", IF r.exc # "" THEN "raise" ELSE "return",
                         r.exc, r.value, [command |-> command, args |-> args])
    /\ UNCHANGED <<settings, session, nextId, now, window>>

(***************************************************************************)
(* LoginWindow (loginwindow.py).                                           *)
(***************************************************************************)
GuiOutcome(op, kind, exc, arg, emitted, hid) ==
    [op |-> op, kind |-> kind, exc |-> exc, value |-> NoValue,
     invoked |-> FALSE, revoke |-> 0, resp |-> NoResp,
     arg |-> arg, emitted |-> emitted, hid |-> hid]

\* what a callback does with the URL once it decided to parse it: a
\* ValueError is logged, any other exception leaves the callback, and when
\* nothing was raised the result is stored, logged_in emitted, hide() called
ParseAndEmit(op, url, arg) ==
    IF IsNone(session)
    THEN /\ last' = GuiOutcome(op, "raise", "AttributeError", arg, FALSE, FALSE)
         /\ UNCHANGED <<session, window>>
    ELSE LET r == parse_token(session, url, now) IN
         /\ session' = r.session
         /\ IF r.exc = "ValueError"
            THEN /\ last' = GuiOutcome(op, "return", "", arg, FALSE, FALSE)
                 /\ UNCHANGED window
            ELSE IF r.exc # ""
            THEN /\ last' = GuiOutcome(op, "raise", r.exc, arg, FALSE, FALSE)
                 /\ UNCHANGED window
            ELSE /\ last' = GuiOutcome(op, "return", "", arg, TRUE, TRUE)
                 /\ window' = [visible |-> FALSE, token |-> r.value]

\* callback of urlChanged
check_URL ==
    /\ \E url \in Urls :
       LET arg == [url |-> url, status |-> 0, redirect |-> FALSE] IN
       IF ~url.fragment
       THEN /\ last' = GuiOutcome("check_URL", "return", "", arg, FALSE, FALSE)
            /\ UNCHANGED <<session, window>>
       ELSE ParseAndEmit("check_URL", url, arg)
    /\ UNCHANGED <<settings, nextId, now>>

\* the status codes of the replies the network access manager reports
ReplyStatuses == {200, 302}

\* redirect tells whether the redirection target contains the redirect URI
Replies == [url : Urls, status : ReplyStatuses, redirect : BOOLEAN]

\* callback of NetworkAccessManager.finished: after the two early returns
\* line 94 reads osf.redirect_uri, an attribute the connection module does
\* not have (redirect_uri is a local of create_session), so the lookup
\* raises AttributeError before the URL is parsed
checkResponse ==
    /\ \E reply \in Replies :
       IF reply.status # 302 \/ ~reply.url.fragment
       THEN last' = GuiOutcome("checkResponse", "return", "", reply, FALSE, FALSE)
       ELSE last' = GuiOutcome("checkResponse", "raise", "AttributeError",
                               reply, FALSE, FALSE)
    /\ UNCHANGED <<settings, session, nextId, now, window>>

Next ==
    \/ ConfigureSettings
    \/ Tick
    \/ create_session
    \/ get_authorization_url
    \/ parse_token_from_url
    \/ is_authorized_call
    \/ token_valid_call
    \/ logout_call
    \/ wrapped_api_call
    \/ api_call_call

\* the login dialogue: the session manager driven by the LoginWindow's
\* callbacks
NextGui ==
    \/ ConfigureSettings
    \/ Tick
    \/ create_session
    \/ get_authorization_url
    \/ parse_token_from_url
    \/ is_authorized_call
    \/ token_valid_call
    \/ logout_call
    \/ check_URL
    \/ checkResponse

SpecGui == Init /\ [][NextGui]_vars

Spec == Init /\ [][Next]_vars

(***************************************************************************)
(* Properties.                                                             *)
(***************************************************************************)
\* a token is stored on an existing session and expires after the clock
TokenStoredAndFresh(s, t) ==
    ~IsNone(s) /\ s.token.present /\ s.token.expires_at > t

JsonTypes == {"application/json", "application/vnd.api+json"}
InvalidTokenBody ==
    "{\"errors\":[{\"detail\":\"User provided an invalid OAuth2 access token\"}]}"

\* C1: the wrapper invokes the wrapped function only when a token is stored
\* and its expires_at is strictly greater than the current time; a call with
\* an absent or expired token ends without the wrapped function being called
C1_DispatchOnlyWithFreshToken ==
    [][(last'.op = "api" /\ last'.invoked) => TokenStoredAndFresh(session, now)]_vars

C1_Witness ==
    /\ last.op = "api" /\ last.invoked
    /\ last.kind = "return"
    /\ TokenStoredAndFresh(session, now)

\* C2: logout() whose revocation request returns 204 discards the session
\* state (is_authorized() and token_valid() are false afterwards) and
\* returns True
C2_LogoutSuccessDiscards ==
    (last.op = "logout" /\ last.revoke = 204) =>
        /\ last.kind = "return" /\ last.value = PyBool(TRUE)
        /\ ~is_authorized(session)
        /\ ~token_valid(session, now)

\* C3: a dispatched call answered with a non-200 status, a JSON content type
\* and the invalid-token detail ends with TokenExpiredError and with
\* is_authorized() false, whatever the revocation endpoint answers
C3_InvalidTokenForcesLogout ==
    ( /\ last.op = "api" /\ last.invoked
      /\ last.resp.status_code # 200
      /\ last.resp.ctype \in JsonTypes
      /\ last.resp.content = InvalidTokenBody ) =>
        /\ last.kind = "raise" /\ last.exc = "TokenExpiredError"
        /\ ~is_authorized(session)

\* C4: a wrapped call made while the session holds no authorization fails
\* with NotAuthenticatedError, an error raised to the caller, and the
\* wrapped function is not invoked
C4_NotAuthenticatedRaises ==
    [][(last'.op = "api" /\ ~IsNone(session) /\ ~is_authorized(session)) =>
          /\ last'.kind = "raise" /\ last'.exc = "NotAuthenticatedError"
          /\ ~last'.invoked]_vars

\* C5: a wrapped call made while the session is authorized and the stored
\* token has expires_at <= now fails with TokenExpiredError, does not invoke
\* the wrapped function, sends no revocation request and leaves the session
\* as it was
C5_LocalExpiryIsPure ==
    [][( /\ last'.op = "api"
         /\ ~IsNone(session) /\ is_authorized(session)
         /\ session.token.expires_at <= now ) =>
          /\ last'.kind = "raise" /\ last'.exc = "TokenExpiredError"
          /\ ~last'.invoked
          /\ last'.revoke = 0
          /\ session' = session]_vars

C5_Witness ==
    /\ last.op = "api" /\ last.exc = "TokenExpiredError" /\ ~last.invoked
    /\ is_authorized(session)
    /\ session.token.expires_at <= now

\* C6: logout() whose revocation request returns a status other than 204
\* returns False and leaves the session, its token and is_authorized()
\* as they were
C6_LogoutFailureKeepsSession ==
    [][(last'.op = "logout" /\ last'.revoke \notin {0, 204}) =>
          /\ last'.kind = "return" /\ last'.value = PyBool(FALSE)
          /\ session' = session]_vars

C6_Witness ==
    /\ last.op = "logout" /\ last.revoke = 400
    /\ last.value = PyBool(FALSE)
    /\ is_authorized(session)

\* C7: while no session was ever created, is_authorized() returns False
\* rather than raising, and a wrapped call is rejected as not authenticated
\* rather than crashing
C7_LazySession ==
    IsNone(session) =>
        /\ last.op = "is_authorized" =>
              (last.kind = "return" /\ last.value = PyBool(FALSE))
        /\ last.op = "api" =>
              (~last.invoked /\ last.exc # "AttributeError")

C9_FourOutcomes ==
    (last.op = "api" /\ last.invoked /\ last.resp.ctype # "") =>
        \/ last.kind = "return" /\ last.value.t \in {"bool", "list", "dict", "str", "bytes"}
        \/ last.kind = "raise" /\ last.exc \in {"TokenExpiredError", "OSFInvalidResponse"}

\* the detail of the first error of a decoded error envelope
Detail(resp) ==
    PyGetItemStr(PyGetItemInt(PyGetItemStr(JsonDecode(resp.content).v,
                                           "errors").v, 0).v, "detail")

HasOtherDetail(resp) ==
    /\ JsonDecode(resp.content).ok
    /\ JsonDecode(resp.content).v.t = "dict"
    /\ HasKey(JsonDecode(resp.content).v, "errors")
    /\ PyGetItemInt(PyGetItemStr(JsonDecode(resp.content).v, "errors").v, 0).exc = ""
    /\ Detail(resp).exc = ""
    /\ Detail(resp).v # JStr(InvalidTokenMsg)

\* C10: a dispatched call answered with a non-200 status, a JSON content type
\* and an error detail other than the invalid-token message fails with
\* OSFInvalidResponse and sends no revocation request
C10_OtherDetailInvalidResponse ==
    ( /\ last.op = "api" /\ last.invoked
      /\ last.resp.status_code # 200
      /\ last.resp.ctype \in JsonTypes
      /\ HasOtherDetail(last.resp) ) =>
        /\ last.kind = "raise" /\ last.exc = "OSFInvalidResponse"
        /\ last.revoke = 0

\* C11 as stated: a dispatched call answered with a non-200 status and a
\* content type that is neither JSON nor application/octet-stream fails with
\* OSFInvalidResponse whose message carries status code, reason phrase and
\* content type and omits the body
C11_BodyOmitted ==
    ( /\ last.op = "api" /\ last.invoked
      /\ last.resp.status_code # 200
      /\ last.resp.ctype \notin JsonTypes \cup {"application/octet-stream", ""} ) =>
        /\ last.kind = "raise" /\ last.exc = "OSFInvalidResponse"
        /\ last.value = [t |-> "error_text",
                         status_code |-> last.resp.status_code,
                         reason |-> Reason(last.resp.status_code),
                         ctype |-> last.resp.ctype,
                         message |-> ""]

\* C11 amended: such a call fails with OSFInvalidResponse whose message
\* carries status code, reason phrase and content type; the body is omitted
\* for text/html only, for every other such content type the message also
\* carries the body
C11_BodyOmittedForHtmlOnly ==
    ( /\ last.op = "api" /\ last.invoked
      /\ last.resp.status_code # 200
      /\ last.resp.ctype \notin JsonTypes \cup {"application/octet-stream", ""} ) =>
        /\ last.kind = "raise" /\ last.exc = "OSFInvalidResponse"
        /\ last.value = [t |-> "error_text",
                         status_code |-> last.resp.status_code,
                         reason |-> Reason(last.resp.status_code),
                         ctype |-> last.resp.ctype,
                         message |-> IF last.resp.ctype = "text/html"
                                     THEN "" ELSE last.resp.content]

C11_Witness ==
    /\ last.op = "api" /\ last.invoked
    /\ last.resp.status_code = 401
    /\ last.resp.ctype = "text/plain"
    /\ last.exc = "OSFInvalidResponse"
    /\ last.value.message = last.resp.content
    /\ last.resp.content # ""

\* C12: a dispatched call answered with status 200 leaves the session as it
\* was; with content type application/vnd.api+json it returns the decoded
\* document, or fails with OSFInvalidResponse when the body does not decode,
\* and with application/octet-stream it returns the bytes of the body as
\* they are
C12_Status200 ==
    [][(last'.op = "api" /\ last'.invoked /\ last'.resp.status_code = 200) =>
          /\ session' = session
          /\ last'.resp.ctype = "application/vnd.api+json" =>
                IF JsonDecode(last'.resp.content).ok
                THEN /\ last'.kind = "return"
                     /\ last'.value = JsonDecode(last'.resp.content).v
                ELSE /\ last'.kind = "raise"
                     /\ last'.exc = "OSFInvalidResponse"
          /\ last'.resp.ctype = "application/octet-stream" =>
                /\ last'.kind = "return"
                /\ last'.value = [t |-> "bytes", raw |-> last'.resp.content]]_vars

C12_Witness ==
    /\ last.op = "api" /\ last.invoked
    /\ last.resp.status_code = 200
    /\ last.resp.ctype = "application/octet-stream"
    /\ last.resp.content = "[]"
    /\ last.kind = "return"
    /\ last.value = [t |-> "bytes", raw |-> "[]"]

\* the URL carries a token and the state the session expects (a session
\* that generated no state accepts any)
ValidRedirect(s, url) ==
    /\ url.token /\ url.access_token # ""
    /\ (s.state = "" \/ url.state = s.state)

StoresAndReturns ==
    (last'.op = "parse_token_from_url" /\ ~IsNone(session)
        /\ ValidRedirect(session, last'.arg)) =>
          /\ last'.kind = "return"
          /\ last'.value = [t |-> "token",
                            access_token |-> last'.arg.access_token,
                            expires_at |-> now + last'.arg.expires_in]
          /\ session'.token = [present |-> TRUE,
                               access_token |-> last'.arg.access_token,
                               expires_at |-> now + last'.arg.expires_in]
          /\ is_authorized(session')

\* C13 as stated: parse_token_from_url with a valid token fragment and a
\* matching state stores the token, returns it and leaves is_authorized()
\* true, and is_authorized() stays true until a logout or create_session
C13_ParseAuthorizes ==
    [][ /\ StoresAndReturns
        /\ (~IsNone(session) /\ is_authorized(session)) =>
              \/ is_authorized(session')
              \/ last'.op \in {"create_session", "logout"}
              \/ last'.op = "api" /\ last'.revoke # 0 ]_vars

\* C13 amended: as above, and is_authorized() stays true until a logout,
\* create_session, or a later parse_token_from_url (also from a LoginWindow
\* callback) that stores another token
C13_ParseAuthorizesUntilReplaced ==
    [][ /\ StoresAndReturns
        /\ (~IsNone(session) /\ is_authorized(session)) =>
              \/ is_authorized(session')
              \/ last'.op \in {"create_session", "logout"}
              \/ last'.op = "api" /\ last'.revoke # 0
              \/ /\ last'.op \in {"parse_token_from_url", "check_URL",
                                  "checkResponse"}
                 /\ last'.kind = "return"
                 /\ session'.token # session.token ]_vars

C13_Witness ==
    /\ last.op = "parse_token_from_url"
    /\ last.kind = "return"
    /\ last.value.t = "token"
    /\ session.state # "" /\ last.arg.state = session.state
    /\ is_authorized(session)

\* C14: parse_token_from_url with a URL that lacks the token fragment, or
\* whose state differs from the one the session expects, raises a parse
\* error and leaves the session, its token and is_authorized() as they were
C14_FailedParseKeepsState ==
    [][( /\ last'.op = "parse_token_from_url"
         /\ ~IsNone(session)
         /\ \/ ~last'.arg.token
            \/ session.state # "" /\ last'.arg.state # session.state ) =>
          /\ last'.kind = "raise"
          /\ last'.exc \in {"ValueError", "MissingTokenError"}
          /\ session' = session]_vars

C14_Witness ==
    /\ last.op = "parse_token_from_url"
    /\ last.kind = "raise" /\ last.exc = "ValueError"
    /\ last.arg.token
    /\ is_authorized(session)

\* the operations that may replace the session or its token
SessionWriters == {"create_session", "parse_token_from_url", "logout",
                   "check_URL", "checkResponse"}

\* a token changes as a whole: to the empty token of a new session, or to
\* the complete token of the URL parsed in this step
TokenReplacedWhole ==
    session'.token # session.token =>
        \/ session'.token = NoToken
        \/ /\ last'.op = "parse_token_from_url"
           /\ session'.token = [present |-> TRUE,
                                access_token |-> last'.arg.access_token,
                                expires_at |-> now + last'.arg.expires_in]
        \/ /\ last'.op \in {"check_URL", "checkResponse"}
           /\ session'.token = [present |-> TRUE,
                                access_token |-> last'.arg.url.access_token,
                                expires_at |-> now + last'.arg.url.expires_in]

\* C15 as stated: the session and its token are changed only by
\* create_session, a parse_token_from_url that does not fail and logout
\* (also the one the wrapper triggers); every other operation leaves the
\* session unchanged, and the token is never partially updated
C15_SessionFrame ==
    [][ /\ session' # session =>
              \/ last'.op \in SessionWriters /\ last'.kind = "return"
              \/ last'.op = "logout"
              \/ last'.op = "api" /\ last'.revoke # 0
        /\ TokenReplacedWhole ]_vars

\* C15 amended: as above, except that get_authorization_url stores the state
\* it generated on the session (and changes nothing else of it, the token
\* included)
C15_SessionFrameButState ==
    [][ /\ session' # session =>
              \/ last'.op \in SessionWriters /\ last'.kind = "return"
              \/ last'.op = "logout"
              \/ last'.op = "api" /\ last'.revoke # 0
              \/ /\ last'.op = "get_authorization_url"
                 /\ session' = [session EXCEPT !.state = last'.value.s]
        /\ TokenReplacedWhole ]_vars

C15_Witness ==
    /\ last.op = "get_authorization_url" /\ last.kind = "return"
    /\ session.state = last.value.s
    /\ is_authorized(session)

\* the three states of the token lifecycle
TokenState(s, t) ==
    IF IsNone(s) \/ ~is_authorized(s) THEN "unauthenticated"
    ELSE IF s.token.expires_at > t THEN "authorized-valid"
    ELSE "authorized-expired"

\* C16 as stated: no step goes directly from authorized-valid to
\* unauthenticated, from authorized-expired to authorized-valid, or from
\* unauthenticated to authorized-expired
C16_LinearLifecycle ==
    [][ LET a == TokenState(session, now)
            b == TokenState(session', now')
        IN  /\ ~(a = "authorized-valid" /\ b = "unauthenticated")
            /\ ~(a = "authorized-expired" /\ b = "authorized-valid")
            /\ ~(a = "unauthenticated" /\ b = "authorized-expired") ]_vars

\* C16 amended: the token state changes only by a clock advance (from
\* authorized-valid to authorized-expired), by a parse_token_from_url that
\* stores a token (to the state of the stored token, from any state), and by
\* create_session or logout (to unauthenticated, from any state)
C16_LifecycleByOperation ==
    [][ LET a == TokenState(session, now)
            b == TokenState(session', now')
        IN  a # b =>
              \/ /\ last'.op = "tick"
                 /\ a = "authorized-valid" /\ b = "authorized-expired"
              \/ /\ last'.op \in {"parse_token_from_url", "check_URL",
                                  "checkResponse"}
                 /\ last'.kind = "return"
              \/ /\ last'.op \in {"create_session", "logout"}
                 /\ b = "unauthenticated"
              \/ /\ last'.op = "api" /\ last'.revoke # 0
                 /\ b = "unauthenticated" ]_vars

C16_Witness ==
    /\ last.op = "tick"
    /\ ~IsNone(session) /\ is_authorized(session)
    /\ session.token.expires_at = now
    /\ TokenState(session, now) = "authorized-expired"

\* C17: create_session either replaces the session by a new one bound to
\* client_id, redirect_uri and scope that holds no token, or, when client_id
\* or redirect_uri is missing from the settings, raises KeyError and leaves
\* the session as it was
C17_CreateSession ==
    [][ last'.op = "create_session" =>
          IF {"client_id", "redirect_uri"} \subseteq settings
          THEN /\ last'.kind = "return"
               /\ session'.id # session.id /\ ~IsNone(session')
               /\ session'.client_id = "client_id"
               /\ session'.redirect_uri = "redirect_uri"
               /\ session'.scope = "scope"
               /\ session'.token = NoToken
               /\ ~is_authorized(session')
               /\ ~token_valid(session', now')
          ELSE /\ last'.kind = "raise" /\ last'.exc = "KeyError"
               /\ session' = session ]_vars

C17_Witness ==
    /\ last.op = "create_session" /\ last.kind = "return"
    /\ session.id = 2
    /\ session.token = NoToken

\* the number of "{}" fields of a template
Placeholders(tpl) == Cardinality({i \in 1..Len(tpl) : tpl[i] = "{}"})

\* C18: api_call raises for a command that is not registered, returns the
\* URL when the number of arguments equals the number of fields of the
\* template (api_base_url + nodes/abc123/files/ for project_repos with
\* abc123, api_base_url + users/me/ for logged_in_user), and raises when
\* the number of arguments differs, too few or too many
C18_ApiCallArity ==
    last.op = "api_call" =>
        IF last.arg.command \notin DOMAIN api_calls
        THEN last.kind = "raise" /\ last.exc = "KeyError"
        ELSE IF Len(last.arg.args) = Placeholders(api_calls[last.arg.command])
        THEN /\ last.kind = "return"
             /\ (last.arg.command = "project_repos" /\ last.arg.args = <<"abc123">>)
                   => last.value.parts = <<api_base_url, "nodes/", "abc123", "/files/">>
             /\ (last.arg.command = "logged_in_user")
                   => last.value.parts = <<api_base_url, "users/me/">>
        ELSE last.kind = "raise"

GuiCallbacks == {"check_URL", "checkResponse"}

\* C19: a LoginWindow callback emits logged_in and hides the window only
\* when parse_token_from_url returned a token and the session is authorized
C19_LoggedInOnlyWhenAuthorized ==
    (last.op \in GuiCallbacks /\ (last.emitted \/ last.hid)) =>
        /\ ~IsNone(session) /\ is_authorized(session)
        /\ window.token.t = "token"

\* C20: checkResponse, given a reply with status 302 whose redirection
\* target has a fragment and contains the redirect URI, parses the target:
\* when the target carries a token and the expected state the token is
\* stored, logged_in emitted and the window hidden, and a ValueError is
\* logged with the window left visible; every other reply changes nothing
C20_CheckResponse ==
    last.op = "checkResponse" =>
        IF last.arg.status = 302 /\ last.arg.url.fragment /\ last.arg.redirect
        THEN /\ (~IsNone(session) /\ ValidRedirect(session, last.arg.url)) =>
                   /\ last.kind = "return"
                   /\ last.emitted /\ last.hid /\ ~window.visible
                   /\ window.token = TokenValue(session.token)
             /\ (~IsNone(session) /\ session.state # ""
                   /\ last.arg.url.state # session.state) =>
                   /\ last.kind = "return"
                   /\ ~last.emitted /\ ~last.hid
        ELSE ~last.emitted /\ ~last.hid
====
